---- MODULE Spec2Model ----
(***************************************************************************)
(* A model of the e-QSL card sender of 0x9900/QSL.                         *)
(*                                                                         *)
(* Two programs of the repository are modelled side by side:               *)
(*   "pkg"    src/eqsl/_eqsl.py  (the eqsl package, QSOData + pickle cache) *)
(*   "script" src/eqsl.py        (the eqsl script, raw dict + marshal cache)*)
(* A behaviour fixes one of them (variable prog) and the ADIF log it is     *)
(* given, and runs it against a persistent cache and a clock that the       *)
(* environment may change between the program's steps.  Spec runs the       *)
(* program once over any log; SpecRerun repeats the command, up to MaxRuns  *)
(* runs, over the logs of one station.                                      *)
(*                                                                         *)
(* Strings whose characters matter to the code (call sign, band, mode,      *)
(* date, time) are sequences of one-character strings; other fields are     *)
(* opaque tokens.  Times are naive epoch seconds: both qso_timestamp() and  *)
(* datetime.utcnow().timestamp() read a naive datetime as local time, so    *)
(* the zone offset is the same on both sides of every comparison and is     *)
(* taken to be 0 here.                                                      *)
(***************************************************************************)
EXTENDS Integers, Sequences, FiniteSets, TLC

VARIABLES
  prog,      \* which program runs: "pkg" or "script"
  runs,      \* number of runs started so far
  opts,      \* command-line options of the current run
  adif,      \* the raw records of the log file the program is given
  idx,       \* position of the current record in adif (1-based)
  pc,        \* position of the run's control
  qso,       \* the current record as the program holds it
  cacheFile, \* state of the file config.qsl_cache: "absent", "ok", "locked"
  cache,     \* the dbm mapping: key -> entry
  now,       \* the clock
  ticks,     \* number of clock advances so far
  faults,    \* number of faults injected into the cache so far
  ret,       \* what the last call of already_sent returned ("none" before)
  calls,     \* external calls made for the current record, in order
  logged,    \* log lines emitted for the current record, in order
  outcomes,  \* outcome of each record of the current run that reached one
  image_name,\* the local image_name of main(): "unbound", "file", "unlinked"
  recorded,  \* key -> clock value when already_sent last stored the key
  started,   \* the clock when the current run started
  prev,      \* the previous run: the records it sent, the clock at its start
  watch      \* the sendcard wrapper: its position, the file it watches

vars == <<prog, runs, opts, adif, idx, pc, qso, cacheFile, cache, now, ticks,
          faults, ret, calls, logged, outcomes, image_name, recorded,
          started, prev, watch>>

-----------------------------------------------------------------------------
(* Bounds of the model.                                                    *)

MaxLog == 2
MaxRuns == 2
MaxTicks == 1
MaxFaults == 1
MaxEvents == 2

-----------------------------------------------------------------------------
(* Program constants.                                                      *)

CACHE_EXPIRE == 86400 * 8

\* The clock at the start: 2024-01-20T00:00:00 (day 19742 of the epoch).
StartClock == 19742 * 86400

\* One advance of the clock: four days.
TickStep == 86400 * 4

-----------------------------------------------------------------------------
(* Characters and strings.                                                 *)

Digits == {"0", "1", "2", "3", "4", "5", "6", "7", "8", "9"}

UpperLetters == {"A", "B", "C", "E", "K", "M", "N", "S", "V", "W", "X"}

LowerLetters == {"a", "b", "c", "e", "k", "m", "n", "s", "v", "w", "x"}

DigitVal(c) ==
  CASE c = "0" -> 0 [] c = "1" -> 1 [] c = "2" -> 2 [] c = "3" -> 3
    [] c = "4" -> 4 [] c = "5" -> 5 [] c = "6" -> 6 [] c = "7" -> 7
    [] c = "8" -> 8 [] c = "9" -> 9

\* str.upper() on one character of the model's alphabet.
UpperChar(c) ==
  CASE c = "a" -> "A" [] c = "b" -> "B" [] c = "c" -> "C" [] c = "e" -> "E"
    [] c = "k" -> "K" [] c = "m" -> "M" [] c = "n" -> "N" [] c = "s" -> "S"
    [] c = "v" -> "V" [] c = "w" -> "W" [] c = "x" -> "X"
    [] OTHER -> c

\* str.upper()
Upper(s) == [i \in 1..Len(s) |-> UpperChar(s[i])]

\* The regular expression classes \d and \w.
IsDigit(c) == c \in Digits

IsWord(c) == c \in Digits \cup UpperLetters \cup LowerLetters \cup {"_"}

\* RE_US_SPECIAL.match(call): the pattern at the start of the call sign, with
\* anything after it.  The variant of the filter that C7 tells apart.
RE_US_SPECIAL_match(call) ==
  /\ Len(call) >= 3
  /\ call[1] \in {"K", "N", "W"}
  /\ IsDigit(call[2])
  /\ IsWord(call[3])

\* RE_US_SPECIAL.fullmatch(call) with RE_US_SPECIAL = '[KNW]\d\w'
RE_US_SPECIAL(call) ==
  /\ Len(call) = 3
  /\ call[1] \in {"K", "N", "W"}
  /\ IsDigit(call[2])
  /\ IsWord(call[3])

-----------------------------------------------------------------------------
(* qso_timestamp: datetime.strptime(day + time[:-2], '%Y%m%d%H%M')         *)
(* followed by .timestamp().                                               *)

\* time[:-2]
DropLast2(s) == IF Len(s) <= 2 THEN <<>> ELSE SubSeq(s, 1, Len(s) - 2)

AllDigits(s, from, to) == \A i \in from..to : IsDigit(s[i])

\* The number written by the digits s[from..to] (0 for an empty range).
RECURSIVE NumAt(_, _, _)
NumAt(s, from, to) ==
  IF to < from THEN 0 ELSE NumAt(s, from, to - 1) * 10 + DigitVal(s[to])

\* One field of the format matched at position p with width w: the
\* alternatives of strptime's regular expression for %m, %d, %H and %M.
FieldOk(kind, s, p, w) ==
  /\ p + w - 1 <= Len(s)
  /\ AllDigits(s, p, p + w - 1)
  /\ LET v == NumAt(s, p, p + w - 1) IN
     CASE kind = "m" -> IF w = 2 THEN v \in 1..12 ELSE v \in 1..9
       [] kind = "d" -> IF w = 2 THEN v \in 1..31 ELSE v \in 1..9
       [] kind = "H" -> IF w = 2 THEN v \in 0..23 ELSE TRUE
       [] kind = "M" -> IF w = 2 THEN v \in 0..59 ELSE TRUE

\* The widths <<m, d, H, M>> the regular expression can match with, after
\* the four digits of %Y.
Matches(s) ==
  { w \in [1..4 -> {1, 2}] :
      /\ Len(s) >= 4 /\ AllDigits(s, 1, 4)
      /\ FieldOk("m", s, 5, w[1])
      /\ FieldOk("d", s, 5 + w[1], w[2])
      /\ FieldOk("H", s, 5 + w[1] + w[2], w[3])
      /\ FieldOk("M", s, 5 + w[1] + w[2] + w[3], w[4]) }

\* Backtracking tries the two-digit alternative of each field first, the
\* earlier field varying last: the match found is the one that is widest
\* in the first field where two matches differ.
Prefers(a, b) ==
  \E i \in 1..4 : a[i] > b[i] /\ \A j \in 1..(i - 1) : a[j] = b[j]

FirstMatch(ms) == CHOOSE w \in ms : \A o \in ms \ {w} : Prefers(w, o)

IsLeap(y) == (y % 4 = 0 /\ y % 100 # 0) \/ y % 400 = 0

DaysInMonth(y, m) ==
  IF m = 2 THEN (IF IsLeap(y) THEN 29 ELSE 28)
  ELSE IF m \in {4, 6, 9, 11} THEN 30 ELSE 31

\* Days from 1970-01-01 to the civil date y-m-d.
DaysFromCivil(y, m, d) ==
  LET yy  == IF m <= 2 THEN y - 1 ELSE y
      era == yy \div 400
      yoe == yy - era * 400
      mp  == (m + 9) % 12
      doy == (153 * mp + 2) \div 5 + d - 1
      doe == yoe * 365 + yoe \div 4 - yoe \div 100 + doy
  IN era * 146097 + doe - 719468

\* strptime: [ok |-> FALSE] stands for ValueError (no match, unconverted
\* data remains, or a day the month does not have).
Strptime(s) ==
  LET ms == Matches(s) IN
  IF ms = {} THEN [ok |-> FALSE, ts |-> 0]
  ELSE
    LET w  == FirstMatch(ms)
        pm == 5
        pd == pm + w[1]
        pH == pd + w[2]
        pM == pH + w[3]
        y  == NumAt(s, 1, 4)
        m  == NumAt(s, pm, pd - 1)
        d  == NumAt(s, pd, pH - 1)
        H  == NumAt(s, pH, pM - 1)
        M  == NumAt(s, pM, pM + w[4] - 1)
    IN IF pM + w[4] - 1 # Len(s) \/ y < 1 \/ d > DaysInMonth(y, m)
       THEN [ok |-> FALSE, ts |-> 0]
       ELSE [ok |-> TRUE,
             ts |-> DaysFromCivil(y, m, d) * 86400 + H * 3600 + M * 60]

qso_timestamp(day, time) == Strptime(day \o DropLast2(time))

-----------------------------------------------------------------------------
(* Raw records: the mappings adif_io yields.  A field the log does not     *)
(* carry is absent from the mapping's domain.                              *)

Has(q, f) == f \in DOMAIN q

\* dict.get(f, default)
Get(q, f, default) == IF Has(q, f) THEN q[f] ELSE default

Without(q, f) == [x \in DOMAIN q \ {f} |-> q[x]]

With(q, f, v) == [x \in DOMAIN q \cup {f} |-> IF x = f THEN v ELSE q[x]]

\* None
None == "None"

\* Tokens float() and int() accept.
ValidFloats == {"14.074", "7.030"}

ValidInts == {"100", "5"}

\* A record as a logging program exports it, without EMAIL.
Raw(call, band, mode, date, time) ==
  [CALL |-> call, BAND |-> band, MODE |-> mode, FREQ |-> "14.074",
   QSO_DATE |-> date, TIME_ON |-> time, NAME |-> <<"hiram", "percy">>,
   OPERATOR |-> "W6BSD", MY_RIG |-> "IC-7300", MY_GRIDSQUARE |-> "CM87",
   TX_PWR |-> "100", FREQ_RX |-> "14.074", BAND_RX |-> band]

C_W1AW == <<"W", "1", "A", "W">>
C_w1aw == <<"w", "1", "a", "w">>
C_K1A == <<"K", "1", "A">>
C_K1ABC == <<"K", "1", "A", "B", "C">>
C_VE3ABC == <<"V", "E", "3", "A", "B", "C">>
B_20M == <<"2", "0", "M">>
B_20m == <<"2", "0", "m">>
B_40M == <<"4", "0", "M">>
M_CW == <<"C", "W">>
M_cw == <<"c", "w">>
M_SSB == <<"S", "S", "B">>
D_0115 == <<"2", "0", "2", "4", "0", "1", "1", "5">>
D_0101 == <<"2", "0", "2", "4", "0", "1", "0", "1">>
D_BAD == <<"2", "0", "2", "4", "0", "1", "1", "X">>
T_143000 == <<"1", "4", "3", "0", "0", "0">>
T_1200 == <<"1", "2", "0", "0">>

\* A recent contact with an email address in the log.
R_w1aw_cw == With(Raw(C_W1AW, B_20M, M_CW, D_0115, T_143000), "EMAIL", "w1aw@arrl.net")

\* The same station, band and mode in lower case, contacted 19 days ago.
R_w1aw_old == With(Raw(C_w1aw, B_20m, M_cw, D_0101, T_1200), "EMAIL", "w1aw@arrl.net")

\* The same station and band in another mode; no email in the log.
R_w1aw_ssb == Raw(C_W1AW, B_20M, M_SSB, D_0115, T_143000)

\* The same station and mode on another band.
R_w1aw_40 == With(Raw(C_W1AW, B_40M, M_CW, D_0115, T_143000), "EMAIL", "w1aw@arrl.net")

\* A US 1x1 special event call sign.
R_k1a == With(Raw(C_K1A, B_20M, M_CW, D_0115, T_143000), "EMAIL", "k1a@example.org")

R_k1abc == Raw(C_K1ABC, B_20M, M_CW, D_0115, T_143000)

R_ve3abc == With(Raw(C_VE3ABC, B_20M, M_CW, D_0115, T_143000), "EMAIL", "ve3abc@example.org")

\* A date that is no date.
R_baddate == With(Raw(C_VE3ABC, B_40M, M_CW, D_BAD, T_143000), "EMAIL", "ve3abc@example.org")

\* A record without its BAND field.
R_noband == Without(R_ve3abc, "BAND")

RawRecords ==
  {R_w1aw_cw, R_w1aw_old, R_w1aw_ssb, R_w1aw_40, R_k1a, R_k1abc, R_ve3abc,
   R_baddate, R_noband}

\* The logs a run may be given: 1 to MaxLog records.
Logs == UNION { [1..n -> RawRecords] : n \in 1..MaxLog }

\* A log file adif_io.read_from_string cannot read (it raises IndexError).
Unreadable == <<[garbage |-> TRUE]>>

\* What the qrz.com lookup may answer: no API key configured, call sign not
\* found, found without an email on file, found with one.
LookupResults == {"nokey", "notfound", "noemail", "found"}

\* What the SMTP dialogue may end in.
SmtpResults == {"ok", "refused", "connrefused", "dataerror"}

Options == [resend : BOOLEAN, no_email : BOOLEAN, keep : BOOLEAN]

NoQSO == [call |-> <<>>]

-----------------------------------------------------------------------------
(* The state after construction: no run yet, no cache file.                *)

EmptyMap == <<>>

\* The wrapper is not in use: the program is started by hand.
WatchOff == [pc |-> "off", events |-> <<>>, seen |-> 0, left |-> 0,
             listening |-> FALSE, exists |-> TRUE, keep |-> FALSE,
             eqsl |-> TRUE]

Init ==
  /\ prog \in {"pkg", "script"}
  /\ runs = 0
  /\ opts = [resend |-> FALSE, no_email |-> FALSE, keep |-> FALSE]
  /\ adif \in Logs \cup {Unreadable}
  /\ idx = 0
  /\ pc = "idle"
  /\ qso = NoQSO
  /\ cacheFile = "absent"
  /\ cache = EmptyMap
  /\ now = StartClock
  /\ ticks = 0
  /\ faults = 0
  /\ ret = "none"
  /\ calls = <<>>
  /\ logged = <<>>
  /\ outcomes = <<>>
  /\ image_name = "unbound"
  /\ recorded = EmptyMap
  /\ started = StartClock
  /\ prev = [sent |-> {}, at |-> StartClock]
  /\ watch = WatchOff

\* The phase a record starts in.
FirstPhase == IF prog = "pkg" THEN "normalize" ELSE "filter"

\* The records of the current run that ended SENT.
SentNow == { i \in 1..Len(outcomes) : outcomes[i] = "SENT" }

\* The loop body ends for the current record (by continue, or by reaching
\* its last statement) with the given outcome.
Finish(outcome) ==
  /\ outcomes' = Append(outcomes, outcome)
  /\ pc' = "next"
  /\ idx' = idx

\* main() up to the for loop, with options o: read the configuration,
\* parse the arguments, read the log.  A log adif_io cannot read ends the
\* run.
Begin(o) ==
  /\ opts' = o
  /\ IF adif # Unreadable
     THEN idx' = 1 /\ pc' = FirstPhase /\ logged' = <<>>
     ELSE idx' = 0 /\ pc' = "exit" /\ logged' = <<"error:reading adif">>
  /\ runs' = runs + 1
  /\ started' = now
  /\ qso' = NoQSO
  /\ ret' = "none"
  /\ calls' = <<>>
  /\ outcomes' = <<>>
  /\ image_name' = "unbound"
  /\ UNCHANGED <<prog, adif, cacheFile, cache, now, ticks, faults, recorded>>

\* The first run, with any options.
StartRun ==
  /\ pc = "idle"
  /\ \E o \in Options : Begin(o)
  /\ UNCHANGED <<prev, watch>>

\* The command is repeated once the run before it has ended: the same log
\* (exported again where the run moved it away), the same options.
Rerun ==
  /\ pc \in {"finished", "exit", "crash"}
  /\ runs < MaxRuns
  /\ Begin(opts)
  /\ prev' = [sent |-> SentNow, at |-> started]
  /\ watch' = watch

\* The head of the for loop: the next record is taken, or the loop ends.
\* What the loop body held of the last record is gone.
LoopNext ==
  /\ pc = "next"
  /\ IF idx < Len(adif)
     THEN idx' = idx + 1 /\ pc' = FirstPhase
     ELSE idx' = idx /\ pc' = "end"
  /\ qso' = NoQSO
  /\ ret' = "none"
  /\ calls' = <<>>
  /\ logged' = <<>>
  /\ UNCHANGED <<watch, prog, runs, opts, adif, cacheFile, cache, now, ticks,
                 faults, outcomes, image_name, recorded, started, prev>>

-----------------------------------------------------------------------------
(* The package: src/eqsl/_eqsl.py                                          *)

\* The timestamp of a raw record, as both programs derive it:
\*   qso.get('QSO_DATE_OFF', qso['QSO_DATE'])
\*   qso.get('TIME_OFF', qso.get('TIME_ON', '0000'))
RawTimestamp(raw) ==
  qso_timestamp(Get(raw, "QSO_DATE_OFF", raw["QSO_DATE"]),
                Get(raw, "TIME_OFF", Get(raw, "TIME_ON", <<"0", "0", "0", "0">>)))

\* int() of a token it accepts.
IntOf(tok) == IF tok = "5" THEN 5 ELSE 100

\* The exception QSOData.__init__ raises before it reaches email_lookup,
\* in the order of its statements; "none" when it raises none.
InitRaises(raw) ==
  IF ~Has(raw, "QSO_DATE") THEN "KeyError"
  ELSE IF ~Has(raw, "CALL") THEN "KeyError"
  ELSE IF ~Has(raw, "FREQ") THEN "KeyError"
  ELSE IF raw["FREQ"] \notin ValidFloats THEN "ValueError"
  ELSE IF ~Has(raw, "BAND") THEN "KeyError"
  ELSE IF ~Has(raw, "MODE") THEN "KeyError"
  ELSE IF Get(raw, "TX_PWR", "100") \notin ValidInts THEN "ValueError"
  ELSE IF ~RawTimestamp(raw).ok THEN "ValueError"
  ELSE "none"

\* QSOData.email_lookup: what it returns (exit: SystemExit), logs and calls.
email_lookup(res) ==
  IF res = "nokey"
  THEN [exit |-> TRUE, email |-> None, calls |-> <<"email_lookup">>,
        logged |-> <<"warning:email not in adif", "error:api key missing">>]
  ELSE IF res = "notfound"
  THEN [exit |-> FALSE, email |-> None, calls |-> <<"email_lookup", "get_call">>,
        logged |-> <<"warning:email not in adif", "error:no email found">>]
  ELSE [exit |-> FALSE, email |-> IF res = "found" THEN "op@qrz.com" ELSE None,
        calls |-> <<"email_lookup", "get_call">>,
        logged |-> <<"warning:email not in adif">>]

\* Whether __init__ calls email_lookup for this raw record: the call is the
\* default argument of qso.get('EMAIL', ...), which Python evaluates before
\* the get.
LookupCalled(raw) == TRUE

\* The fields of QSOData that the modelled steps read.
QSOData(raw, email) ==
  [my_call   |-> Get(raw, "OPERATOR", "W6BSD"),
   call      |-> raw["CALL"],
   band      |-> raw["BAND"],
   mode      |-> raw["MODE"],
   rst_sent  |-> Get(raw, "RST_SENT", "599"),
   rst_rcvd  |-> Get(raw, "RST_RCVD", "599"),
   tx_pwr    |-> IntOf(Get(raw, "TX_PWR", "100")),
   timestamp |-> RawTimestamp(raw).ts,
   name      |-> Get(raw, "NAME", <<"Dear", "OM">>),
   email     |-> Get(raw, "EMAIL", email)]

\* main(): qso = QSOData(_qso, config) and its except clause.
Normalize ==
  /\ prog = "pkg"
  /\ pc = "normalize"
  /\ LET raw == adif[idx]
         exc == InitRaises(raw)
     IN
     IF exc = "KeyError"
     THEN /\ pc' = "exit"
          /\ logged' = <<"error:adif missing key">>
          /\ calls' = <<>>
          /\ qso' = NoQSO
     ELSE IF exc = "ValueError"
     THEN /\ pc' = "crash"
          /\ logged' = <<>>
          /\ calls' = <<>>
          /\ qso' = NoQSO
     ELSE IF LookupCalled(raw)
     THEN \E res \in LookupResults :
            LET lk == email_lookup(res) IN
            /\ calls' = lk.calls
            /\ logged' = lk.logged
            /\ IF lk.exit
               THEN pc' = "exit" /\ qso' = NoQSO
               ELSE pc' = "check" /\ qso' = QSOData(raw, lk.email)
     ELSE /\ calls' = <<>>
          /\ logged' = <<>>
          /\ pc' = "check"
          /\ qso' = QSOData(raw, None)
  /\ ret' = "none"
  /\ UNCHANGED <<watch, prog, runs, opts, adif, idx, cacheFile, cache, now,
                 ticks, faults, outcomes, image_name, recorded, started,
                 prev>>

\* The cache key of already_sent.
Key(q) == Upper(q.call \o <<"-">> \o q.band \o <<"-">> \o q.mode)

\* pickle.dumps(qso)
Pickle(q) == [valid |-> TRUE, qso |-> q]

\* An entry that never expires, as in the script's already_sent.  The
\* variant of the expiry test that C3 tells apart.
Fresh_NeverExpires(entry, t) == TRUE

\* cached.timestamp > datetime.utcnow().timestamp() - CACHE_EXPIRE
Fresh(entry, t) == entry.qso.timestamp > t - CACHE_EXPIRE

\* The try block that reads the cache: "True" when it returns True, else
\* the exception it raised, or "stale" when the entry has expired.
ReadCache(q, cf, c, t) ==
  IF cf # "ok" THEN "dbm.error"
  ELSE IF Key(q) \notin DOMAIN c THEN "KeyError"
  ELSE IF ~c[Key(q)].valid THEN "UnpicklingError"
  ELSE IF Fresh(c[Key(q)], t) THEN "True"
  ELSE "stale"

\* already_sent with the cache opened for writing with flag 'n' (always a
\* new, empty database) instead of 'c'.  The variant that C19 tells apart.
already_sent_truncating(q, cf, c, t) ==
  LET r == ReadCache(q, cf, c, t) IN
  IF r = "True"
  THEN [ret |-> "True", cacheFile |-> cf, cache |-> c, stored |-> FALSE,
        calls |-> <<"cache_read">>, logged |-> <<>>]
  ELSE IF r = "UnpicklingError"
  THEN [ret |-> "raised", cacheFile |-> cf, cache |-> c, stored |-> FALSE,
        calls |-> <<"cache_read">>, logged |-> <<>>]
  ELSE IF cf = "locked"
  THEN [ret |-> "False", cacheFile |-> cf, cache |-> c, stored |-> FALSE,
        calls |-> <<"cache_read", "cache_write">>, logged |-> <<"warning:cache">>]
  ELSE [ret |-> "False", cacheFile |-> "ok",
        cache |-> (Key(q) :> Pickle(q)), stored |-> TRUE,
        calls |-> <<"cache_read", "cache_write">>, logged |-> <<>>]

\* already_sent(qso) on cache file state cf with mapping c at time t: what
\* it returns ("raised": an exception leaves it), the cache it leaves, what
\* it logs, and whether it stored the record.
already_sent(q, cf, c, t) ==
  LET r == ReadCache(q, cf, c, t) IN
  IF r = "True"
  THEN [ret |-> "True", cacheFile |-> cf, cache |-> c, stored |-> FALSE,
        calls |-> <<"cache_read">>, logged |-> <<>>]
  ELSE IF r = "UnpicklingError"
  THEN [ret |-> "raised", cacheFile |-> cf, cache |-> c, stored |-> FALSE,
        calls |-> <<"cache_read">>, logged |-> <<>>]
  ELSE IF cf = "locked"
  THEN [ret |-> "False", cacheFile |-> cf, cache |-> c, stored |-> FALSE,
        calls |-> <<"cache_read", "cache_write">>, logged |-> <<"warning:cache">>]
  ELSE [ret |-> "False", cacheFile |-> "ok",
        cache |-> (Key(q) :> Pickle(q)) @@ c, stored |-> TRUE,
        calls |-> <<"cache_read", "cache_write">>, logged |-> <<>>]

\* main(): if not opts.resend and already_sent(qso): ... continue
CheckSent ==
  /\ prog = "pkg"
  /\ pc = "check"
  /\ IF opts.resend
     THEN /\ pc' = "deliver"
          /\ UNCHANGED <<idx, outcomes, cacheFile, cache, ret, calls, logged,
                         recorded>>
     ELSE LET a == already_sent(qso, cacheFile, cache, now) IN
          /\ ret' = a.ret
          /\ cacheFile' = a.cacheFile
          /\ cache' = a.cache
          /\ calls' = calls \o a.calls
          /\ recorded' = IF a.stored THEN (Key(qso) :> now) @@ recorded
                         ELSE recorded
          /\ IF a.ret = "raised"
             THEN /\ pc' = "crash"
                  /\ logged' = logged \o a.logged
                  /\ UNCHANGED <<idx, outcomes>>
             ELSE IF a.ret = "True"
             THEN /\ logged' = logged \o a.logged \o <<"warning:already sent">>
                  /\ Finish("SKIPPED_SENT")
             ELSE /\ logged' = logged \o a.logged
                  /\ pc' = "deliver"
                  /\ UNCHANGED <<idx, outcomes>>
  /\ UNCHANGED <<watch, prog, runs, opts, adif, qso, now, ticks, faults,
                 image_name, started, prev>>

\* send_mail(qso, image_name): what it ends in for an SMTP dialogue smtp.
\* The connection is made and the login done before sendmail() iterates
\* over the recipient, which raises TypeError when the email is None.
send_mail(q, smtp) ==
  IF smtp = "connrefused" \/ smtp = "dataerror" THEN "SystemExit"
  ELSE IF q.email = None THEN "TypeError"
  ELSE IF smtp = "refused" THEN "SMTPRecipientsRefused"
  ELSE "sent"

\* main(): from "if not opts.no_email" to the end of the loop body.
Deliver ==
  /\ prog = "pkg"
  /\ pc = "deliver"
  /\ \E smtp \in SmtpResults :
       LET r == IF opts.no_email THEN "skipped" ELSE send_mail(qso, smtp)
           made == IF opts.no_email THEN image_name ELSE "file"
       IN
       /\ calls' = IF opts.no_email THEN calls
                   ELSE calls \o <<"card", "send_mail">>
       /\ IF r = "SystemExit"
          THEN /\ pc' = "exit"
               /\ logged' = Append(logged, "error:smtp")
               /\ image_name' = made
               /\ UNCHANGED <<idx, outcomes>>
          ELSE IF r = "TypeError"
          THEN /\ pc' = "crash"
               /\ logged' = logged
               /\ image_name' = made
               /\ UNCHANGED <<idx, outcomes>>
          ELSE IF ~opts.keep /\ made = "unbound"
          THEN \* os.unlink(image_name): UnboundLocalError
               /\ pc' = "crash"
               /\ logged' = logged
               /\ image_name' = made
               /\ UNCHANGED <<idx, outcomes>>
          ELSE /\ logged' = IF r = "SMTPRecipientsRefused"
                            THEN Append(logged, "warning:recipient malformed")
                            ELSE IF r = "sent"
                            THEN Append(logged, "info:mail sent")
                            ELSE logged
               /\ image_name' = IF opts.keep THEN made ELSE "unlinked"
               /\ Finish(IF r = "SMTPRecipientsRefused" THEN "SEND_FAILED"
                             ELSE IF r = "sent" THEN "SENT"
                             ELSE "NO_MAIL")
  /\ UNCHANGED <<watch, prog, runs, opts, adif, qso, cacheFile, cache, now,
                 ticks, faults, ret, recorded, started, prev>>

\* move_adif: the log file is renamed to .old.  Where the wrapper watches
\* the file, the file is gone and the wrapper is notified of the removal.
move_adif(w) ==
  IF w.pc = "off" THEN w
  ELSE [w EXCEPT !.exists = FALSE,
                 !.events = IF w.listening THEN Append(@, {"deleted"})
                            ELSE @]

\* main() after the loop: close the log and, unless --keep, move it away.
FinishRun ==
  /\ pc = "end"
  /\ pc' = "finished"
  /\ watch' = IF opts.keep THEN watch ELSE move_adif(watch)
  /\ UNCHANGED <<prog, runs, opts, adif, idx, qso, cacheFile, cache, now,
                 ticks, faults, ret, calls, logged, outcomes, image_name,
                 recorded, started, prev>>

-----------------------------------------------------------------------------
(* The script: src/eqsl.py.  qso is the raw mapping, which main() fills in. *)

\* main(): the special event station filter.  qso['CALL'] raises KeyError,
\* which nothing catches.
Filter ==
  /\ prog = "script"
  /\ pc = "filter"
  /\ LET raw == adif[idx] IN
     /\ qso' = raw
     /\ calls' = <<>>
     /\ IF ~Has(raw, "CALL")
        THEN /\ pc' = "crash"
             /\ logged' = <<>>
             /\ UNCHANGED <<idx, outcomes>>
        ELSE IF RE_US_SPECIAL(raw["CALL"])
        THEN /\ logged' = <<"warning:skip special">>
             /\ Finish("SKIPPED_SPECIAL")
        ELSE /\ pc' = "check"
             /\ logged' = <<>>
             /\ UNCHANGED <<idx, outcomes>>
  /\ ret' = "none"
  /\ UNCHANGED <<watch, prog, runs, opts, adif, cacheFile, cache, now, ticks,
                 faults, image_name, recorded, started, prev>>

\* The cache key of the script's already_sent.
ScriptKey(q) == Upper(q["CALL"] \o <<"-">> \o q["BAND"])

\* marshal.dumps(qso)
Marshal(q) == [valid |-> TRUE, qso |-> q]

\* The script's already_sent(qso).  The key is built outside the try block.
script_already_sent(q, cf, c) ==
  IF ~Has(q, "BAND")
  THEN [ret |-> "raised", cacheFile |-> cf, cache |-> c, stored |-> FALSE,
        calls |-> <<>>, logged |-> <<>>]
  ELSE IF cf = "locked"
  THEN [ret |-> "False", cacheFile |-> cf, cache |-> c, stored |-> FALSE,
        calls |-> <<"cache_read">>, logged |-> <<"warning:cache">>]
  ELSE IF cf = "ok" /\ ScriptKey(q) \in DOMAIN c
  THEN [ret |-> "True", cacheFile |-> cf, cache |-> c, stored |-> FALSE,
        calls |-> <<"cache_read">>, logged |-> <<>>]
  ELSE [ret |-> "False", cacheFile |-> "ok",
        cache |-> (ScriptKey(q) :> Marshal(q)) @@ c, stored |-> TRUE,
        calls |-> IF cf = "ok" THEN <<"cache_read", "cache_write">>
                  ELSE <<"cache_write">>,
        logged |-> <<>>]

\* main(): if opts.uniq and already_sent(qso): ... continue
\* opts.resend stands for the script's -u flag, which clears opts.uniq.
ScriptCheckSent ==
  /\ prog = "script"
  /\ pc = "check"
  /\ IF opts.resend
     THEN /\ pc' = "prepare"
          /\ UNCHANGED <<idx, outcomes, cacheFile, cache, ret, calls, logged,
                         recorded>>
     ELSE LET a == script_already_sent(qso, cacheFile, cache) IN
          /\ ret' = a.ret
          /\ cacheFile' = a.cacheFile
          /\ cache' = a.cache
          /\ calls' = calls \o a.calls
          /\ recorded' = IF a.stored THEN (ScriptKey(qso) :> now) @@ recorded
                         ELSE recorded
          /\ IF a.ret = "raised"
             THEN /\ pc' = "crash"
                  /\ logged' = logged \o a.logged
                  /\ UNCHANGED <<idx, outcomes>>
             ELSE IF a.ret = "True"
             THEN /\ logged' = logged \o a.logged \o <<"warning:already sent">>
                  /\ Finish("SKIPPED_SENT")
             ELSE /\ logged' = logged \o a.logged
                  /\ pc' = "prepare"
                  /\ UNCHANGED <<idx, outcomes>>
  /\ UNCHANGED <<watch, prog, runs, opts, adif, qso, now, ticks, faults,
                 image_name, started, prev>>

\* Whether main() asks qrz.com: 'EMAIL' not in qso or not qso['EMAIL']
NeedsLookup(q) == ~Has(q, "EMAIL") \/ q["EMAIL"] = ""

\* What main() raises between the lookup and card(): qso['NAME'] and
\* qso['QSO_DATE'] raise KeyError, qso_timestamp raises ValueError.
PrepareRaises(q) ==
  IF ~Has(q, "NAME") THEN "KeyError"
  ELSE IF ~Has(q, "QSO_DATE") THEN "KeyError"
  ELSE IF ~RawTimestamp(q).ok THEN "ValueError"
  ELSE "none"

\* The fields main() fills in before card().
Prepared(q) ==
  LET a == With(q, "RST_SENT", Get(q, "RST_SENT", "59"))
      b == With(a, "RST_RCVD", Get(q, "RST_RCVD", "59"))
      c == With(b, "NAME", IF q["NAME"] = <<>> THEN <<"Dear", "OM">>
                           ELSE <<Head(q["NAME"])>>)
  IN With(c, "timestamp", RawTimestamp(q).ts)

\* main(): from the email lookup to the timestamp.
ScriptPrepare ==
  /\ prog = "script"
  /\ pc = "prepare"
  /\ \E res \in LookupResults :
       LET asked == NeedsLookup(qso)
           q1 == IF asked /\ res = "found"
                 THEN With(With(qso, "EMAIL", "op@qrz.com"), "NAME", <<"Op">>)
                 ELSE qso
       IN
       IF asked /\ res = "nokey"
       THEN \* config.qrz_key: AttributeError, which _connect does not catch
            /\ pc' = "crash"
            /\ calls' = calls
            /\ logged' = logged
            /\ qso' = qso
            /\ UNCHANGED <<idx, outcomes>>
       ELSE IF asked /\ res # "found"
       THEN /\ calls' = Append(calls, "get_call")
            /\ logged' = Append(logged, "error:no email found")
            /\ qso' = qso
            /\ Finish("SKIPPED_NOEMAIL")
       ELSE /\ calls' = IF asked THEN Append(calls, "get_call") ELSE calls
            /\ logged' = logged
            /\ IF PrepareRaises(q1) # "none"
               THEN pc' = "crash" /\ qso' = q1
               ELSE pc' = "deliver" /\ qso' = Prepared(q1)
            /\ UNCHANGED <<idx, outcomes>>
  /\ UNCHANGED <<watch, prog, runs, opts, adif, cacheFile, cache, now, ticks,
                 faults, ret, image_name, recorded, started, prev>>

\* The attributes card() and send_mail() read from the record.
CardFields ==
  {"timestamp", "CALL", "OPERATOR", "MODE", "BAND", "RST_SENT", "RST_RCVD",
   "MY_RIG", "TX_PWR", "MY_GRIDSQUARE"}

MailFields ==
  {"EMAIL", "OPERATOR", "CALL", "NAME", "timestamp", "FREQ_RX", "MODE",
   "BAND_RX", "RST_SENT", "RST_RCVD", "MY_RIG", "MY_GRIDSQUARE"}

\* card(qso, config.signature): a missing attribute or a TX_PWR that is no
\* integer raises.
card_raises(q) ==
  ~(CardFields \subseteq DOMAIN q) \/ q["TX_PWR"] \notin ValidInts

\* The script's send_mail(qso, image): only ConnectionRefusedError is
\* handled (sys.exit(1)).
script_send_mail(q, smtp) ==
  IF ~(MailFields \subseteq DOMAIN q) THEN "AttributeError"
  ELSE IF smtp = "connrefused" THEN "SystemExit"
  ELSE IF smtp = "dataerror" THEN "SMTPDataError"
  ELSE IF smtp = "refused" THEN "SMTPRecipientsRefused"
  ELSE "sent"

\* main(): card(), send_mail() and the unlink.
ScriptDeliver ==
  /\ prog = "script"
  /\ pc = "deliver"
  /\ \E smtp \in SmtpResults :
       LET r == IF card_raises(qso) THEN "CardError"
                ELSE IF opts.no_email THEN "skipped"
                ELSE script_send_mail(qso, smtp)
       IN
       /\ calls' = IF r = "CardError" THEN Append(calls, "card")
                   ELSE IF opts.no_email THEN Append(calls, "card")
                   ELSE calls \o <<"card", "send_mail">>
       /\ IF r = "SystemExit"
          THEN /\ pc' = "exit"
               /\ logged' = Append(logged, "error:smtp")
               /\ image_name' = "file"
               /\ UNCHANGED <<idx, outcomes>>
          ELSE IF r \in {"CardError", "AttributeError", "SMTPDataError"}
          THEN /\ pc' = "crash"
               /\ logged' = logged
               /\ image_name' = IF r = "CardError" THEN image_name ELSE "file"
               /\ UNCHANGED <<idx, outcomes>>
          ELSE /\ logged' = IF r = "SMTPRecipientsRefused"
                            THEN Append(logged, "warning:recipient malformed")
                            ELSE IF r = "sent"
                            THEN Append(logged, "info:mail sent")
                            ELSE logged
               /\ image_name' = IF opts.keep THEN "file" ELSE "unlinked"
               /\ Finish(IF r = "SMTPRecipientsRefused" THEN "SEND_FAILED"
                             ELSE IF r = "sent" THEN "SENT"
                             ELSE "NO_MAIL")
  /\ UNCHANGED <<watch, prog, runs, opts, adif, qso, cacheFile, cache, now,
                 ticks, faults, ret, recorded, started, prev>>

-----------------------------------------------------------------------------
(* The environment.  The programs read the clock and the cache only in     *)
(* already_sent, so the environment's steps are taken right before it.     *)

EnvTurn == pc = "check" /\ ~opts.resend

\* Time passes.
Tick ==
  /\ EnvTurn
  /\ ticks < MaxTicks
  /\ ticks' = ticks + 1
  /\ now' = now + TickStep
  /\ UNCHANGED <<watch, prog, runs, opts, adif, idx, pc, qso, cacheFile,
                 cache, faults, ret, calls, logged, outcomes, image_name,
                 recorded, started, prev>>

\* The cache file is deleted.
DeleteCache ==
  /\ EnvTurn
  /\ faults < MaxFaults
  /\ cacheFile = "ok"
  /\ cacheFile' = "absent"
  /\ cache' = EmptyMap
  /\ faults' = faults + 1
  /\ UNCHANGED <<watch, prog, runs, opts, adif, idx, pc, qso, now, ticks,
                 ret, calls, logged, outcomes, image_name, recorded, started,
                 prev>>

\* The cache file can no longer be opened (its permissions are gone).
LockCache ==
  /\ EnvTurn
  /\ faults < MaxFaults
  /\ cacheFile = "ok"
  /\ cacheFile' = "locked"
  /\ faults' = faults + 1
  /\ UNCHANGED <<watch, prog, runs, opts, adif, idx, pc, qso, cache, now,
                 ticks, ret, calls, logged, outcomes, image_name, recorded,
                 started, prev>>

\* The bytes stored under a key are damaged.  Damage shows only when the
\* entry is read, so it is done to the entry about to be read.
CorruptEntry ==
  /\ EnvTurn
  /\ faults < MaxFaults
  /\ cacheFile = "ok"
  /\ \E k \in DOMAIN cache :
       /\ Has(qso, IF prog = "pkg" THEN "band" ELSE "BAND")
       /\ k = (IF prog = "pkg" THEN Key(qso) ELSE ScriptKey(qso))
       /\ cache[k].valid
       /\ cache' = [cache EXCEPT ![k].valid = FALSE]
  /\ faults' = faults + 1
  /\ UNCHANGED <<watch, prog, runs, opts, adif, idx, pc, qso, cacheFile, now,
                 ticks, ret, calls, logged, outcomes, image_name, recorded,
                 started, prev>>

-----------------------------------------------------------------------------

Next ==
  \/ StartRun
  \/ Normalize
  \/ CheckSent
  \/ Deliver
  \/ Filter
  \/ ScriptCheckSent
  \/ ScriptPrepare
  \/ ScriptDeliver
  \/ LoopNext
  \/ FinishRun
  \/ Tick
  \/ DeleteCache
  \/ LockCache
  \/ CorruptEntry

Spec == Init /\ [][Next]_vars

\* The logs of the rerun scenario: contacts with one station.
RerunRecords == {R_w1aw_cw, R_w1aw_old, R_w1aw_ssb}

RerunLogs == UNION { [1..n -> RerunRecords] : n \in 1..MaxLog }

InitRerun == Init /\ adif \in RerunLogs

NextRerun == Next \/ Rerun

SpecRerun == InitRerun /\ [][NextRerun]_vars

-----------------------------------------------------------------------------
(* The wrapper: src/eqsl/sendcard.py                                       *)
(*                                                                         *)
(* sendcard watches a directory for the log file and calls eqsl with it.   *)
(* watch.pc is the wrapper's position: "start" before main() looks for the *)
(* file, "watching" in the for loop over watch(), "calling" inside         *)
(* subprocess.call, "crash" after an exception.  watch.events are the sets *)
(* of changes the watcher holds for the loop, watch.left the iterations    *)
(* the inner for still has to make over the set it took.                   *)

\* Everything but the wrapper.
batch == <<prog, runs, opts, adif, idx, pc, qso, cacheFile, cache, now, ticks,
           faults, ret, calls, logged, outcomes, image_name, recorded,
           started, prev>>

\* The sets of changes watch() yields: the filter leaves the changes of the
\* one file, so a set holds each kind of change at most once.
Changes == {"added", "modified", "deleted"}
ChangeSets == (SUBSET Changes) \ {{}}

\* The wrapper's position after it started the program without waiting for
\* it, as a Popen would.
AfterPopen == "watching"

\* The wrapper's position after send_cards started the program:
\* subprocess.call returns when the program has ended.
AfterCall == "calling"

\* The watcher exists from the moment main() reaches the for loop.
Listen(w) == [w EXCEPT !.listening = @ \/ w.pc = "watching"]

\* send_cards(full_name, opts.show, opts.keep), the wrapper being w when it
\* is called: FileNotFoundError without an eqsl on the PATH, nothing without
\* the file, else eqsl -a full_name [-k] is started.
send_cards(w) ==
  IF ~w.eqsl
  THEN /\ watch' = [w EXCEPT !.pc = "crash"]
       /\ UNCHANGED batch
  ELSE IF ~w.exists
  THEN /\ watch' = Listen([w EXCEPT !.pc = "watching"])
       /\ UNCHANGED batch
  ELSE /\ Begin([resend |-> FALSE, no_email |-> FALSE, keep |-> w.keep])
       /\ prev' = [sent |-> SentNow, at |-> started]
       /\ watch' = Listen([w EXCEPT !.pc = AfterCall])

\* main() up to the for loop: a file that is already there is sent at once.
WatchMain ==
  /\ watch.pc = "start"
  /\ IF watch.exists
     THEN send_cards(watch)
     ELSE /\ watch' = Listen([watch EXCEPT !.pc = "watching"])
          /\ UNCHANGED batch

\* subprocess.call returns: the program has ended, in whatever way.
CallReturns ==
  /\ watch.pc = "calling"
  /\ pc \in {"finished", "exit", "crash"}
  /\ watch' = Listen([watch EXCEPT !.pc = "watching"])
  /\ UNCHANGED batch

\* The for loop takes the next set of changes.  A set with a deletion is
\* skipped; else the inner for makes one iteration for each change.
WatchNext ==
  /\ watch.pc = "watching"
  /\ watch.left = 0
  /\ watch.events # <<>>
  /\ watch' = [watch EXCEPT
                 !.events = Tail(@),
                 !.left = IF "deleted" \in Head(watch.events) THEN 0
                          ELSE Cardinality(Head(watch.events))]
  /\ UNCHANGED batch

\* One iteration of the inner for: send_cards with the file's name.
WatchCall ==
  /\ watch.pc = "watching"
  /\ watch.left > 0
  /\ send_cards([watch EXCEPT !.left = @ - 1])

\* The logging program exports, rewrites or removes the file, at any time.
\* The watcher, once it exists, holds the changes for the loop.
FileEvent ==
  /\ watch.pc \in {"start", "watching", "calling"}
  /\ watch.seen < MaxEvents
  /\ \E ch \in ChangeSets, e \in BOOLEAN :
       /\ "deleted" \notin ch => e
       /\ ch = {"deleted"} => ~e
       /\ watch' = [watch EXCEPT
                      !.exists = e,
                      !.seen = @ + 1,
                      !.events = IF watch.listening THEN Append(@, ch)
                                 ELSE @]
  /\ UNCHANGED batch

WatchLogs == { <<r>> : r \in {R_w1aw_cw, R_k1abc} } \cup {Unreadable}

NextWatch ==
  \/ WatchMain
  \/ CallReturns
  \/ WatchNext
  \/ WatchCall
  \/ FileEvent
  \/ Normalize
  \/ CheckSent
  \/ Deliver
  \/ Filter
  \/ ScriptCheckSent
  \/ ScriptPrepare
  \/ ScriptDeliver
  \/ LoopNext
  \/ FinishRun


-----------------------------------------------------------------------------
(* Properties.                                                             *)

InSeq(x, s) == \E i \in 1..Len(s) : s[i] = x

Count(x, s) == Cardinality({ i \in 1..Len(s) : s[i] = x })

\* The log was read and the loop is at one of its records.
AtRecord == adif # Unreadable /\ idx \in 1..Len(adif)

\* Call sign, band and mode of a raw record, case folded.
Contact(raw) == <<Upper(raw["CALL"]), Upper(raw["BAND"]), Upper(raw["MODE"])>>

HasContact(raw) == {"CALL", "BAND", "MODE"} \subseteq DOMAIN raw

\* The retention window, in seconds.
Window == 8 * 24 * 3600

\* A step in which the package's main() calls already_sent.
PkgChecks == prog = "pkg" /\ pc = "check" /\ ~opts.resend /\ pc' # "check"

\* A step in which either program's main() calls already_sent.
AnyChecks == pc = "check" /\ ~opts.resend /\ pc' # "check"

\* C1: when the command is repeated without --resend and less than the
\* retention window after the run before it, with the cache left alone in
\* between, every record the run before sent ends skipped as already sent,
\* and none of them is handed to the mailer again.
C1_RerunSkipsWhatWasSent ==
  (runs >= 2 /\ ~opts.resend /\ faults = 0 /\ now - prev.at < Window)
    => \A i \in prev.sent :
         /\ i <= Len(outcomes) => outcomes[i] = "SKIPPED_SENT"
         /\ i = idx => ~InSeq("send_mail", calls)

\* C2: once already_sent has stored a record under a key, a later call of
\* already_sent for that key, with the cache left alone in between, returns
\* True exactly when it is made less than the retention window after the
\* key was stored.
C2_Step ==
  (PkgChecks /\ faults = 0 /\ Key(qso) \in DOMAIN recorded)
    => (ret' = "True" <=> now - recorded[Key(qso)] < Window)

C2_TrackedWithinWindow == [][C2_Step]_vars

\* C3: already_sent of src/eqsl/_eqsl.py returns True exactly when, at the
\* time of the call, the cache holds a readable entry under the record's key
\* and the timestamp of that entry is later than the current time minus 8
\* days; an older entry counts as absent although it is still stored.
C3_Step ==
  PkgChecks
    => (ret' = "True" <=>
          /\ cacheFile = "ok"
          /\ Key(qso) \in DOMAIN cache
          /\ cache[Key(qso)].valid
          /\ cache[Key(qso)].qso.timestamp > now - Window)

C3_TrueIffHeldAndRecent == [][C3_Step]_vars

\* C3 happens: the second record of a log has the key of the first, which
\* was stored and sent and whose entry nothing removed, and already_sent
\* has returned False for it.
C3_Witness ==
  /\ prog = "pkg"
  /\ pc = "deliver"
  /\ idx = 2
  /\ faults = 0
  /\ outcomes = <<"SENT">>
  /\ Contact(adif[1]) = Contact(adif[2])
  /\ Key(qso) \in DOMAIN recorded
  /\ ret = "False"

\* C4: within one run that starts without a cache, two records have the
\* same cache key exactly when they share call sign, band and mode, case
\* aside; so a record ends skipped as already sent only when an earlier
\* record of the log shares its call sign, band and mode.
CacheKey(raw) ==
  IF prog = "pkg"
  THEN Upper(raw["CALL"] \o <<"-">> \o raw["BAND"] \o <<"-">> \o raw["MODE"])
  ELSE ScriptKey(raw)

C4_KeyIffSameContact ==
  adif # Unreadable =>
    \A j \in 1..Len(outcomes) : \A i \in 1..(j - 1) :
      (HasContact(adif[i]) /\ HasContact(adif[j])) =>
        /\ CacheKey(adif[i]) = CacheKey(adif[j])
             <=> Contact(adif[i]) = Contact(adif[j])
        /\ outcomes[j] = "SKIPPED_SENT"
             => \E k \in 1..(j - 1) : Contact(adif[k]) = Contact(adif[j])

\* C5: in the package, a record that has no email (none in the log, none
\* from the lookup) is never handed to the mailer, does not crash the run,
\* and ends skipped.
C5_NoEmailNeverMailed ==
  (prog = "pkg" /\ AtRecord /\ ~opts.no_email /\ qso # NoQSO /\ qso.email = None)
    => /\ ~InSeq("send_mail", calls)
       /\ pc # "crash"
       /\ pc = "next" => outcomes[idx] \in {"SKIPPED_NOEMAIL", "SKIPPED_SENT"}

\* C6: no directory lookup is made for a record whose raw form has an
\* EMAIL field, and at most one lookup is made for any record.
C6_LookupOnlyWithoutEmail ==
  AtRecord =>
    /\ (Has(adif[idx], "EMAIL") /\ adif[idx]["EMAIL"] # "")
         => ~InSeq("email_lookup", calls) /\ ~InSeq("get_call", calls)
    /\ Count("email_lookup", calls) <= 1
    /\ Count("get_call", calls) <= 1

C8_Step ==
  (PkgChecks /\ (cacheFile = "locked"
                  \/ (cacheFile = "ok" /\ Key(qso) \in DOMAIN cache
                      /\ ~cache[Key(qso)].valid)))
    => /\ ret' = "False"
       /\ pc' = "deliver"
       /\ Len(logged') > Len(logged)

C8_ReadFailsOpen == [][C8_Step]_vars

\* C9: when the cache file has been deleted since a key was stored, the
\* next already_sent for that key returns False, raises nothing, and logs
\* a warning.
C9_Step ==
  (AnyChecks /\ Has(qso, IF prog = "pkg" THEN "band" ELSE "BAND")
     /\ cacheFile = "absent"
     /\ (IF prog = "pkg" THEN Key(qso) ELSE ScriptKey(qso)) \in DOMAIN recorded)
    => /\ ret' = "False"
       /\ pc' # "crash"
       /\ InSeq("warning:cache", logged')

C9_DeletedCacheWarns == [][C9_Step]_vars

\* C10: a record whose date and time make no timestamp does not end the
\* run: it is skipped and the loop goes on.
C10_BadDateDoesNotAbort ==
  (AtRecord /\ Has(adif[idx], "QSO_DATE") /\ ~RawTimestamp(adif[idx]).ok)
    => pc \notin {"crash", "exit"}

\* The cache holds a readable entry under key k.
Holds(k) == cacheFile = "ok" /\ k \in DOMAIN cache

\* The loop body has ended for the current record, with outcome o.
Ended(o) == AtRecord /\ pc = "next" /\ outcomes[idx] = o

\* C11: when the recipient of a record is refused, the record ends
\* SEND_FAILED with the refusal logged and, the cache left alone by the
\* environment, with its key in the cache; the loop goes on (it is at its
\* head, not stopped).
C11_RefusedIsTracked ==
  (Ended("SEND_FAILED") /\ faults = 0)
    => /\ Holds(CacheKey(adif[idx]))
       /\ InSeq("warning:recipient malformed", logged)

\* C15: after a record ends SENT, the cache left alone by the environment,
\* the cache holds an entry under its key that carries the timestamp of the
\* record, with --resend as without.
C15_SentIsTracked ==
  (prog = "pkg" /\ Ended("SENT") /\ faults = 0)
    => /\ Holds(Key(qso))
       /\ cache[Key(qso)].qso.timestamp = qso.timestamp

\* C16: with --no-email no mail is sent, the card is drawn for every record
\* that is not skipped, and delivery does not stop the run.
C16_NoEmailStillDrawsCard ==
  (AtRecord /\ opts.no_email)
    => /\ ~InSeq("send_mail", calls)
       /\ Ended("NO_MAIL") => InSeq("card", calls)
       /\ (prog = "pkg" /\ pc = "crash") => (qso = NoQSO \/ ret = "raised")

\* The entry under key k has not expired: the package's entries expire, the
\* script's never do.
Unexpired(k) ==
  prog = "pkg" => cache[k].valid /\ cache[k].qso.timestamp > now - Window

\* C17: in a first run, when the loop body has ended or the run has stopped
\* at a record for which send_mail was not called, and no earlier record of
\* the log has its key, the cache holds no unexpired entry under its key.
C17_EntryOnlyAfterSend ==
  (AtRecord /\ runs = 1 /\ pc \in {"next", "exit", "crash"}
     /\ HasContact(adif[idx])
     /\ ~InSeq("send_mail", calls)
     /\ \A i \in 1..(idx - 1) : CacheKey(adif[i]) # CacheKey(adif[idx]))
    => ~(Holds(CacheKey(adif[idx])) /\ Unexpired(CacheKey(adif[idx])))

\* The part of the frame of already_sent that holds whatever it returns: no
\* entry is deleted, no entry is added or changed under a key other than
\* the record's, and a call that returns True or raises changes nothing.
FrameOfOthers ==
  /\ \A j \in DOMAIN cache :
       j \in DOMAIN cache' /\ (j # Key(qso) => cache'[j] = cache[j])
  /\ \A j \in DOMAIN cache' : j # Key(qso) => j \in DOMAIN cache
  /\ ret' \in {"True", "raised"} => cache' = cache /\ cacheFile' = cacheFile

\* After the call the cache holds the snapshot of the current record under
\* its key.
SnapshotStored ==
  /\ cacheFile' = "ok"
  /\ Key(qso) \in DOMAIN cache'
  /\ cache'[Key(qso)].valid
  /\ cache'[Key(qso)].qso = qso

\* C19 as the package has it: the frame holds, and a call that returns
\* False leaves the snapshot of the record under its key, unless the cache
\* cannot be opened for writing: then the store is unchanged and a warning
\* is logged.
C19_Step ==
  PkgChecks =>
    /\ FrameOfOthers
    /\ ret' = "False" =>
         IF cacheFile = "locked"
         THEN cache' = cache /\ cacheFile' = cacheFile
              /\ InSeq("warning:cache", logged')
         ELSE SnapshotStored

C19_FrameOfAlreadySent == [][C19_Step]_vars

\* C19 happens: already_sent has returned False for the second record of a
\* log and stored it, and the entry of the first record, under another
\* key, is still there.
C19_Witness ==
  /\ prog = "pkg"
  /\ pc = "deliver"
  /\ idx = 2
  /\ ret = "False"
  /\ cacheFile = "ok"
  /\ Cardinality(DOMAIN cache) = 2
  /\ cache[Key(qso)].qso = qso

\* C19 as stated: the frame holds, and every call that returns False leaves
\* the snapshot of the record under its key.
C19_OriginalStep ==
  PkgChecks => FrameOfOthers /\ (ret' = "False" => SnapshotStored)

C19_FalseAlwaysStores == [][C19_OriginalStep]_vars

-----------------------------------------------------------------------------
(* Particular logs: a log of three records, records that miss a field,     *)
(* and the forms of TIME_ON.  SpecCases runs the program once over them.   *)

\* The state before a run over one of the given logs.
InitOver(logs) ==
  /\ prog \in {"pkg", "script"}
  /\ runs = 0
  /\ opts = [resend |-> FALSE, no_email |-> FALSE, keep |-> FALSE]
  /\ adif \in logs
  /\ idx = 0
  /\ pc = "idle"
  /\ qso = NoQSO
  /\ cacheFile = "absent"
  /\ cache = EmptyMap
  /\ now = StartClock
  /\ ticks = 0
  /\ faults = 0
  /\ ret = "none"
  /\ calls = <<>>
  /\ logged = <<>>
  /\ outcomes = <<>>
  /\ image_name = "unbound"
  /\ recorded = EmptyMap
  /\ started = StartClock
  /\ prev = [sent |-> {}, at |-> StartClock]

\* A record with its email, one without, and a repeat of the first.
EndToEndLogs == { <<R_w1aw_cw, R_k1abc, r>> : r \in {R_w1aw_cw, R_w1aw_old} }

\* Records that miss a field the programs index without a default.
R_nocall == Without(R_ve3abc, "CALL")

R_nomode == Without(R_ve3abc, "MODE")

R_nodate == Without(R_ve3abc, "QSO_DATE")

MissingRecords == {R_nocall, R_noband, R_nomode, R_nodate}

MissingLogs == { <<r>> : r \in MissingRecords }

\* TIME_ON as HHMM and with a zone letter; R_w1aw_cw has it as HHMMSS.
T_1430 == <<"1", "4", "3", "0">>

T_1430Z == <<"1", "4", "3", "0", "Z">>

R_hhmm == With(Raw(C_W1AW, B_20M, M_CW, D_0115, T_1430), "EMAIL", "w1aw@arrl.net")

R_hhmmz == With(Raw(C_W1AW, B_20M, M_CW, D_0115, T_1430Z), "EMAIL", "w1aw@arrl.net")

TimeRecords == {R_w1aw_cw, R_hhmm, R_hhmmz}

TimeLogs == UNION { [1..n -> TimeRecords] : n \in 1..MaxLog }

InitCases ==
  /\ InitOver(EndToEndLogs \cup MissingLogs \cup TimeLogs)
  /\ watch = WatchOff

SpecCases == InitCases /\ [][Next]_vars

\* s is the beginning of t.
IsPrefix(s, t) == Len(s) <= Len(t) /\ \A i \in 1..Len(s) : s[i] = t[i]

\* The lookup made for the current record yielded no email.
LookupFailed ==
  IF prog = "pkg" THEN qso # NoQSO /\ qso.email = None
  ELSE InSeq("error:no email found", logged)

\* C12: over a log of a record with its email, a record without email whose
\* lookup fails, and a record with the call sign, band and mode of the
\* first, run without --resend and without --no-email, the cache and the
\* clock left alone, the second record does not crash the run and the
\* outcomes come out as SENT, SKIPPED (no email), SKIPPED (already sent).
C12_EndToEnd ==
  (adif \in EndToEndLogs /\ ~opts.resend /\ ~opts.no_email
     /\ faults = 0 /\ ticks = 0)
    => /\ (idx = 2 /\ LookupFailed) => pc # "crash"
       /\ (Len(outcomes) >= 2 /\ outcomes[1] = "SENT"
             /\ outcomes[2] \notin {"SENT", "SEND_FAILED"})
            => IsPrefix(outcomes, <<"SENT", "SKIPPED_NOEMAIL", "SKIPPED_SENT">>)

\* C13: for a record that misses CALL, BAND, MODE or QSO_DATE no lookup, no
\* cache access, no card and no send is made, and the record goes no
\* further than the check of the cache.
C13_MissingFieldTouchesNothing ==
  (AtRecord /\ ~({"CALL", "BAND", "MODE", "QSO_DATE"} \subseteq DOMAIN adif[idx]))
    => /\ calls = <<>>
       /\ pc \notin {"prepare", "deliver", "next"}

\* The epoch value of hour HH, minute MM of the day YYYYMMDD.
MinuteOf(day, time) ==
  DaysFromCivil(NumAt(day, 1, 4), NumAt(day, 5, 6), NumAt(day, 7, 8)) * 86400
    + NumAt(time, 1, 2) * 3600 + NumAt(time, 3, 4) * 60

\* The timestamp the program holds for the current record, once derived.
Derived ==
  IF prog = "pkg" THEN qso # NoQSO
  ELSE Has(qso, "timestamp")

DerivedTimestamp == IF prog = "pkg" THEN qso.timestamp ELSE qso["timestamp"]

\* C14: the timestamp derived for a record whose TIME_ON starts with HHMM
\* is the epoch value of hour HH, minute MM of the day QSO_DATE; for
\* "20240115" and "1430Z" it is that of 2024-01-15T14:30:00, 1705329000.
C14_TimestampIsHourAndMinute ==
  (AtRecord /\ Derived /\ Has(adif[idx], "QSO_DATE") /\ Has(adif[idx], "TIME_ON"))
    => /\ DerivedTimestamp
            = MinuteOf(adif[idx]["QSO_DATE"], adif[idx]["TIME_ON"])
       /\ (adif[idx]["QSO_DATE"] = D_0115 /\ adif[idx]["TIME_ON"] = T_1430Z)
            => DerivedTimestamp = 1705329000

-----------------------------------------------------------------------------
(* The wrapper's invocations.                                              *)

InitWatch ==
  /\ InitOver(WatchLogs)
  /\ watch \in [pc : {"start"}, events : {<<>>}, seen : {0}, left : {0},
                listening : {FALSE}, exists : BOOLEAN, keep : BOOLEAN,
                eqsl : BOOLEAN]

SpecWatch == InitWatch /\ [][NextWatch]_vars

NotRunning == pc \in {"idle", "finished", "exit", "crash"}

\* C18: the wrapper starts the program only when no program it started
\* before is still running: every start finds the run before it ended.
C18_Step == runs' = runs + 1 => NotRunning

C18_OneBatchAtATime == [][C18_Step]_vars

\* A change of the file is held for the loop while the program the wrapper
\* started is in the middle of a record.
C18_Witness ==
  /\ watch.pc = "calling"
  /\ runs >= 1
  /\ pc = "deliver"
  /\ \E i \in 1..Len(watch.events) : "deleted" \notin watch.events[i]

====
